---- MODULE Spec2Model ----
(***************************************************************************)
(* Model of the risk-assessment service, services/ai-ml/src/main.py.       *)
(*                                                                         *)
(* Scores are floats in the source; here a score is an integer number of   *)
(* points (0..100), a weight is an integer number of tenths, and the       *)
(* overall score is therefore held in tenths of a point (WeightScale).     *)
(* The weighted sum is exact here; the source adds the same three products *)
(* in floats, which can differ from it by a rounding in the last place.    *)
(* Confidences and probabilities are held in hundredths (UnitScale).       *)
(* Time is counted in ticks, TicksPerSecond to the second.                 *)
(***************************************************************************)
EXTENDS Integers, Sequences, FiniteSets, TLC

VARIABLES
    clock,             \* datetime.utcnow(), in ticks
    req,               \* per invocation of perform_risk_assessment: its locals
    background_tasks,  \* per invocation: the BackgroundTasks queue
    db,                \* rows of the RiskAssessment table, in insertion order
    cache,             \* redis: key -> value
    rec_input,         \* generate_recommendations called on its own: argument
    rec_output,        \* generate_recommendations called on its own: result
    scan,              \* the invocation of predict_early_detection: its locals
    lost_tasks,        \* the background tasks that a crash of the process dropped
    lookup             \* the latest invocation of get_risk_assessment

vars ==
    <<clock, req, background_tasks, db, cache, rec_input, rec_output, scan, lost_tasks,
      lookup>>

---------------------------------------------------------------------------
(* Bounds of the model *)

MaxClock == 2
TicksPerSecond == 2
MaxRequests == 2
MaxLen == 3

(* Units *)
WeightScale == 10
UnitScale == 100

Requests == 1..MaxRequests

HourTicks == 3600 * TicksPerSecond
DayTicks == 24 * HourTicks

---------------------------------------------------------------------------
(* RiskScore and its field constraints *)

ScoreMin == 0
ScoreMax == 100

Trends == {"improving", "stable", "worsening"}

\* A faulty variant: the score has no upper limit.
RiskScoreValid_unbounded(out) ==
    /\ out.score >= ScoreMin
    /\ out.probability >= 0 /\ out.probability <= UnitScale
    /\ out.confidence >= 0 /\ out.confidence <= UnitScale
    /\ out.trend \in Trends

\* RiskScore(...): pydantic accepts the predictor's values only inside the
\* declared ranges; otherwise the constructor raises.
RiskScoreValid(out) ==
    /\ out.score >= ScoreMin /\ out.score <= ScoreMax
    /\ out.probability >= 0 /\ out.probability <= UnitScale
    /\ out.confidence >= 0 /\ out.confidence <= UnitScale
    /\ out.trend \in Trends

RiskScore(condition, out) ==
    [condition |-> condition, score |-> out.score, probability |-> out.probability,
     confidence |-> out.confidence, trend |-> out.trend]

---------------------------------------------------------------------------
(* Overall score: sum(score.score * weights[score.condition] ...) *)

\* A faulty variant of the weights (two entries exchanged).
weights_exchanged ==
    [preeclampsia |-> 3, gestational_diabetes |-> 4, preterm_birth |-> 3]

\* A faulty variant: weights that add up to more than one.
weights_unnormalised ==
    [preeclampsia |-> 4, gestational_diabetes |-> 4, preterm_birth |-> 3]

weights ==
    [preeclampsia |-> 4, gestational_diabetes |-> 3, preterm_birth |-> 3]

RECURSIVE WeightedSum(_)
WeightedSum(risk_scores) ==
    IF risk_scores = <<>> THEN 0
    ELSE WeightedSum(SubSeq(risk_scores, 1, Len(risk_scores) - 1))
         + risk_scores[Len(risk_scores)].score
           * weights[risk_scores[Len(risk_scores)].condition]

overall_score(risk_scores) == WeightedSum(risk_scores)

(* Risk level bands *)
CriticalThreshold == 80
HighThreshold == 60
ModerateThreshold == 30

\* A faulty variant of the bands: the boundary 60 left to the lower band.
risk_level_exclusive(score) ==
    IF score >= CriticalThreshold * WeightScale THEN "critical"
    ELSE IF score > HighThreshold * WeightScale THEN "high"
    ELSE IF score >= ModerateThreshold * WeightScale THEN "moderate"
    ELSE "low"

risk_level(score) ==
    IF score >= CriticalThreshold * WeightScale THEN "critical"
    ELSE IF score >= HighThreshold * WeightScale THEN "high"
    ELSE IF score >= ModerateThreshold * WeightScale THEN "moderate"
    ELSE "low"

(* Next assessment due: the timedelta added to utcnow() *)
CriticalHours == 6
HighDays == 1
ModerateDays == 3
LowDays == 7

\* Faulty variants of the schedule: timedelta(days=6) for critical, and the
\* intervals of high and moderate exchanged.
next_assessment_delta_days(level) ==
    IF level = "critical" THEN CriticalHours * DayTicks
    ELSE IF level = "high" THEN HighDays * DayTicks
    ELSE IF level = "moderate" THEN ModerateDays * DayTicks
    ELSE LowDays * DayTicks

next_assessment_delta_exchanged(level) ==
    IF level = "critical" THEN CriticalHours * HourTicks
    ELSE IF level = "high" THEN ModerateDays * DayTicks
    ELSE IF level = "moderate" THEN HighDays * DayTicks
    ELSE LowDays * DayTicks

next_assessment_delta(level) ==
    IF level = "critical" THEN CriticalHours * HourTicks
    ELSE IF level = "high" THEN HighDays * DayTicks
    ELSE IF level = "moderate" THEN ModerateDays * DayTicks
    ELSE LowDays * DayTicks

---------------------------------------------------------------------------
(* generate_recommendations *)

RecommendationThreshold == 60

PreeclampsiaBundle ==
    << [type |-> "monitoring", priority |-> "high",
        title |-> "Increased Blood Pressure Monitoring",
        description |-> "Monitor blood pressure twice daily and report readings above 140/90",
        evidence_level |-> "A"],
       [type |-> "lifestyle", priority |-> "medium",
        title |-> "Reduce Sodium Intake",
        description |-> "Limit sodium intake to less than 2300mg per day",
        evidence_level |-> "B"] >>

GestationalDiabetesBundle ==
    << [type |-> "testing", priority |-> "high",
        title |-> "Glucose Tolerance Test",
        description |-> "Schedule glucose tolerance test within 1 week",
        evidence_level |-> "A"],
       [type |-> "lifestyle", priority |-> "high",
        title |-> "Dietary Modifications",
        description |-> "Consult with nutritionist for diabetic diet plan",
        evidence_level |-> "A"] >>

\* Faulty variants of the loop body: the threshold exclusive, and a bundle
\* for every other condition.
RecommendationsFor_exclusive(risk_score) ==
    IF risk_score.score > RecommendationThreshold
    THEN IF risk_score.condition = "preeclampsia" THEN PreeclampsiaBundle
         ELSE IF risk_score.condition = "gestational_diabetes"
              THEN GestationalDiabetesBundle
              ELSE <<>>
    ELSE <<>>

RecommendationsFor_fallthrough(risk_score) ==
    IF risk_score.score >= RecommendationThreshold
    THEN IF risk_score.condition = "preeclampsia" THEN PreeclampsiaBundle
         ELSE GestationalDiabetesBundle
    ELSE <<>>

\* A faulty variant: no branch for gestational_diabetes.
RecommendationsFor_preeclampsia_only(risk_score) ==
    IF risk_score.score >= RecommendationThreshold
    THEN IF risk_score.condition = "preeclampsia" THEN PreeclampsiaBundle
         ELSE <<>>
    ELSE <<>>

\* One pass of the loop body: what the iteration extends the list with.
RecommendationsFor(risk_score) ==
    IF risk_score.score >= RecommendationThreshold
    THEN IF risk_score.condition = "preeclampsia" THEN PreeclampsiaBundle
         ELSE IF risk_score.condition = "gestational_diabetes"
              THEN GestationalDiabetesBundle
              ELSE <<>>
    ELSE <<>>

\* A faulty variant of the loop: each bundle put in front of the list.
RECURSIVE generate_recommendations_front(_)
generate_recommendations_front(risk_scores) ==
    IF risk_scores = <<>> THEN <<>>
    ELSE RecommendationsFor(risk_scores[Len(risk_scores)])
         \o generate_recommendations_front(
                SubSeq(risk_scores, 1, Len(risk_scores) - 1))

RECURSIVE generate_recommendations(_)
generate_recommendations(risk_scores) ==
    IF risk_scores = <<>> THEN <<>>
    ELSE generate_recommendations(SubSeq(risk_scores, 1, Len(risk_scores) - 1))
         \o RecommendationsFor(risk_scores[Len(risk_scores)])

---------------------------------------------------------------------------
(* RiskAssessmentOutput and its field constraints *)

RiskLevels == {"low", "moderate", "high", "critical"}

\* np.mean([score.confidence ...]): the sum over the count, kept as a fraction.
RECURSIVE SumConfidence(_)
SumConfidence(risk_scores) ==
    IF risk_scores = <<>> THEN 0
    ELSE SumConfidence(Tail(risk_scores)) + Head(risk_scores).confidence

\* A faulty variant: the confidence of the last score instead of the mean.
mean_confidence_last(risk_scores) ==
    [num |-> risk_scores[Len(risk_scores)].confidence, den |-> 1]

mean_confidence(risk_scores) ==
    [num |-> SumConfidence(risk_scores), den |-> Len(risk_scores)]

RiskAssessmentOutputValid(a) ==
    /\ a.overall_risk_score >= ScoreMin * WeightScale
    /\ a.overall_risk_score <= ScoreMax * WeightScale
    /\ a.risk_level \in RiskLevels
    /\ a.confidence.den > 0
    /\ a.confidence.num >= 0
    /\ a.confidence.num <= a.confidence.den * UnitScale

\* f"ra_{datetime.utcnow().strftime('%Y%m%d_%H%M%S')}_{patient_id}":
\* the time token has the resolution of one second.
assessment_id(now, patient_id) == <<"ra", now \div TicksPerSecond, patient_id>>

---------------------------------------------------------------------------
(* State of one invocation of perform_risk_assessment *)

\* The request body's pregnancy_id and model_manager.get_model_version():
\* opaque values the handler passes through.
PregnancyOf(patient_id) == <<"pregnancy", patient_id>>

ModelVersion == "model_version"

NoResponse == [status |-> 0, body |-> <<>>]

IdleRequest ==
    [pc |-> "idle", patient_id |-> "", patient_data |-> FALSE,
     vital_signs |-> FALSE, pregnancy_id |-> "", calls |-> <<>>, risk_scores |-> <<>>,
     overall_score |-> -1, risk_level |-> "", recommendations |-> <<>>,
     due_now |-> -1, next_assessment |-> -1, assessment_id |-> <<>>,
     response |-> NoResponse, error |-> ""]

\* State of the invocation of predict_early_detection.
IdleScan ==
    [pc |-> "idle", patient_id |-> "", days_ahead |-> 0, calls |-> <<>>,
     predictions |-> <<>>, response |-> NoResponse, error |-> ""]

\* No invocation of get_risk_assessment yet.
NoLookup ==
    [assessment_id |-> <<>>, cached |-> FALSE, queried |-> FALSE,
     raised |-> "", response |-> NoResponse]

Init ==
    /\ clock = 0
    /\ req = [r \in Requests |-> IdleRequest]
    /\ background_tasks = [r \in Requests |-> <<>>]
    /\ db = <<>>
    /\ cache = <<>>
    /\ rec_input = <<>>
    /\ rec_output = <<>>
    /\ scan = IdleScan
    /\ lost_tasks = {}
    /\ lookup = NoLookup

\* except Exception as e: raise HTTPException(status_code=500, ...).
\* The BackgroundTasks of an invocation that raises are never run.
Failed(rq, e) ==
    [rq EXCEPT !.pc = "done", !.error = e,
               !.response = [status |-> 500, body |-> <<>>]]

Raise(r, rq, e) ==
    /\ req' = [req EXCEPT ![r] = Failed(rq, e)]
    /\ background_tasks' = [background_tasks EXCEPT ![r] = <<>>]

\* The clock advances on its own, between any two steps.
Tick ==
    /\ clock < MaxClock
    /\ clock' = clock + 1
    /\ UNCHANGED <<req, background_tasks, db, cache, rec_input, rec_output, scan, lost_tasks, lookup>>

---------------------------------------------------------------------------
(* perform_risk_assessment, one action per stretch between two awaits or   *)
(* two readings of the clock                                               *)

Received(patient_id, patient_data, vital_signs) ==
    [IdleRequest EXCEPT !.patient_id = patient_id,
                        !.pregnancy_id = PregnancyOf(patient_id),
                        !.patient_data = patient_data,
                        !.vital_signs = vital_signs]

\* A body without patient_data or vital_signs does not parse as a
\* RiskAssessmentInput: the framework answers 422 and the handler is not
\* called.
RejectRequest(r, patient_id, patient_data, vital_signs) ==
    /\ req[r].pc = "idle"
    /\ ~patient_data \/ ~vital_signs
    /\ req' = [req EXCEPT ![r] =
            [Received(patient_id, patient_data, vital_signs) EXCEPT
                !.pc = "done",
                !.error = "RequestValidationError",
                !.response = [status |-> 422, body |-> <<>>]]]
    /\ UNCHANGED <<clock, background_tasks, db, cache, rec_input, rec_output,
                   scan, lost_tasks, lookup>>

\* Entry: the input check, then the call of feature_engineer.engineer_features.
\* The HTTPException(400) is raised inside the try block, so the except
\* clause catches it like any other exception. The check fires when the
\* handler is given an input whose patient_data or vital_signs is falsy.
StartAssessment(r, patient_id, patient_data, vital_signs) ==
    /\ req[r].pc = "idle"
    /\ IF ~patient_data \/ ~vital_signs
       THEN Raise(r, Received(patient_id, patient_data, vital_signs),
                  "HTTPException(400)")
       ELSE /\ req' = [req EXCEPT ![r] =
                    [Received(patient_id, patient_data, vital_signs)
                        EXCEPT !.pc = "engineer_features"]]
            /\ UNCHANGED background_tasks
    /\ UNCHANGED <<clock, db, cache, rec_input, rec_output, scan, lost_tasks, lookup>>

\* features = await feature_engineer.engineer_features(assessment_input)
EngineerFeatures(r, raised) ==
    /\ req[r].pc = "engineer_features"
    /\ IF raised
       THEN Raise(r, req[r], "engineer_features")
       ELSE /\ req' = [req EXCEPT ![r].pc = "preeclampsia"]
            /\ UNCHANGED background_tasks
    /\ UNCHANGED <<clock, db, cache, rec_input, rec_output, scan, lost_tasks, lookup>>

\* The log of the predictor calls made: which model, whether it raised, and
\* what it returned.
Called(rq, condition, raised, out) ==
    [rq EXCEPT !.calls = Append(@, [model |-> condition, raised |-> raised,
                                    returned |-> out])]

\* Faulty variants of the step: a predictor that raised is skipped and the
\* assessment goes on without its score; and the score is put in front of
\* the list.
Predict_degraded(r, condition, next_pc, raised, out) ==
    /\ req[r].pc = condition
    /\ IF raised
       THEN /\ req' = [req EXCEPT ![r] =
                    [Called(req[r], condition, TRUE, out) EXCEPT !.pc = next_pc]]
            /\ UNCHANGED background_tasks
       ELSE IF ~RiskScoreValid(out)
       THEN Raise(r, Called(req[r], condition, FALSE, out), "ValidationError")
       ELSE /\ req' = [req EXCEPT ![r] =
                    [Called(req[r], condition, FALSE, out) EXCEPT
                        !.pc = next_pc,
                        !.risk_scores = Append(@, RiskScore(condition, out))]]
            /\ UNCHANGED background_tasks
    /\ UNCHANGED <<clock, db, cache, rec_input, rec_output, scan, lost_tasks, lookup>>

Predict_front(r, condition, next_pc, raised, out) ==
    /\ req[r].pc = condition
    /\ IF raised
       THEN Raise(r, Called(req[r], condition, TRUE, out), "PredictionError")
       ELSE IF ~RiskScoreValid(out)
       THEN Raise(r, Called(req[r], condition, FALSE, out), "ValidationError")
       ELSE /\ req' = [req EXCEPT ![r] =
                    [Called(req[r], condition, FALSE, out) EXCEPT
                        !.pc = next_pc,
                        !.risk_scores = <<RiskScore(condition, out)>> \o @]]
            /\ UNCHANGED background_tasks
    /\ UNCHANGED <<clock, db, cache, rec_input, rec_output, scan, lost_tasks, lookup>>

\* score = await model.predict(features); risk_scores.append(RiskScore(...))
Predict(r, condition, next_pc, raised, out) ==
    /\ req[r].pc = condition
    /\ IF raised
       THEN Raise(r, Called(req[r], condition, TRUE, out), "PredictionError")
       ELSE IF ~RiskScoreValid(out)
       THEN Raise(r, Called(req[r], condition, FALSE, out), "ValidationError")
       ELSE /\ req' = [req EXCEPT ![r] =
                    [Called(req[r], condition, FALSE, out) EXCEPT
                        !.pc = next_pc,
                        !.risk_scores = Append(@, RiskScore(condition, out))]]
            /\ UNCHANGED background_tasks
    /\ UNCHANGED <<clock, db, cache, rec_input, rec_output, scan, lost_tasks, lookup>>

PredictPreeclampsia(r, raised, out) ==
    Predict(r, "preeclampsia", "gestational_diabetes", raised, out)

\* A faulty variant: the aggregation entered after the second predictor.
PredictGestationalDiabetes_last(r, raised, out) ==
    Predict(r, "gestational_diabetes", "aggregate", raised, out)

PredictGestationalDiabetes(r, raised, out) ==
    Predict(r, "gestational_diabetes", "preterm_birth", raised, out)

PredictPretermBirth(r, raised, out) ==
    Predict(r, "preterm_birth", "aggregate", raised, out)

\* A faulty variant: the scores kept in one list that the invocations share.
Aggregate_shared(r) ==
    /\ req[r].pc = "aggregate"
    /\ req' = [req EXCEPT
            ![r].pc = "schedule",
            ![r].overall_score = overall_score(req[1].risk_scores),
            ![r].risk_level = risk_level(overall_score(req[1].risk_scores)),
            ![r].recommendations = generate_recommendations(req[1].risk_scores)]
    /\ UNCHANGED <<clock, background_tasks, db, cache, rec_input, rec_output, scan, lost_tasks, lookup>>

\* The weighted sum, the risk level and the recommendations.
Aggregate(r) ==
    /\ req[r].pc = "aggregate"
    /\ req' = [req EXCEPT
            ![r].pc = "schedule",
            ![r].overall_score = overall_score(req[r].risk_scores),
            ![r].risk_level = risk_level(overall_score(req[r].risk_scores)),
            ![r].recommendations = generate_recommendations(req[r].risk_scores)]
    /\ UNCHANGED <<clock, background_tasks, db, cache, rec_input, rec_output, scan, lost_tasks, lookup>>

\* next_assessment = datetime.utcnow() + timedelta(...)
ScheduleNext(r) ==
    /\ req[r].pc = "schedule"
    /\ req' = [req EXCEPT
            ![r].pc = "assessment_id",
            ![r].due_now = clock,
            ![r].next_assessment = clock + next_assessment_delta(req[r].risk_level)]
    /\ UNCHANGED <<clock, background_tasks, db, cache, rec_input, rec_output, scan, lost_tasks, lookup>>

\* assessment_id=f"ra_{datetime.utcnow()...}_{patient_id}"
MakeAssessmentId(r) ==
    /\ req[r].pc = "assessment_id"
    /\ req' = [req EXCEPT
            ![r].pc = "build",
            ![r].assessment_id = assessment_id(clock, req[r].patient_id)]
    /\ UNCHANGED <<clock, background_tasks, db, cache, rec_input, rec_output, scan, lost_tasks, lookup>>

AssessmentResult(r, now) ==
    [assessment_id |-> req[r].assessment_id,
     patient_id |-> req[r].patient_id,
     pregnancy_id |-> req[r].pregnancy_id,
     timestamp |-> now,
     overall_risk_score |-> req[r].overall_score,
     risk_level |-> req[r].risk_level,
     risk_scores |-> req[r].risk_scores,
     recommendations |-> req[r].recommendations,
     next_assessment_due |-> req[r].next_assessment,
     model_version |-> ModelVersion,
     confidence |-> mean_confidence(req[r].risk_scores)]

\* A faulty variant: the cache task is not added.
BuildAndReturn_store_only(r, metrics_raised) ==
    /\ req[r].pc = "build"
    /\ IF ~RiskAssessmentOutputValid(AssessmentResult(r, clock))
       THEN Raise(r, req[r], "ValidationError")
       ELSE IF metrics_raised
       THEN Raise(r, req[r], "record_assessment")
       ELSE /\ req' = [req EXCEPT
                    ![r].pc = "done",
                    ![r].response = [status |-> 200,
                                     body |-> <<AssessmentResult(r, clock)>>]]
            /\ background_tasks' = [background_tasks EXCEPT ![r] =
                    << [task |-> "store_risk_assessment",
                        assessment |-> AssessmentResult(r, clock)] >>]
    /\ UNCHANGED <<clock, db, cache, rec_input, rec_output, scan, lost_tasks, lookup>>

\* timestamp=datetime.utcnow(), ...: RiskAssessmentOutput(...) is validated,
\* the two background tasks are added, the metrics recorded, the result returned.
BuildAndReturn(r, metrics_raised) ==
    /\ req[r].pc = "build"
    /\ IF ~RiskAssessmentOutputValid(AssessmentResult(r, clock))
       THEN Raise(r, req[r], "ValidationError")
       ELSE IF metrics_raised
       THEN Raise(r, req[r], "record_assessment")
       ELSE /\ req' = [req EXCEPT
                    ![r].pc = "done",
                    ![r].response = [status |-> 200,
                                     body |-> <<AssessmentResult(r, clock)>>]]
            /\ background_tasks' = [background_tasks EXCEPT ![r] =
                    << [task |-> "store_risk_assessment",
                        assessment |-> AssessmentResult(r, clock)],
                       [task |-> "cache_assessment_result",
                        assessment |-> AssessmentResult(r, clock)] >>]
    /\ UNCHANGED <<clock, db, cache, rec_input, rec_output, scan, lost_tasks, lookup>>

---------------------------------------------------------------------------
(* The background tasks, run in the order added once the response is sent *)

\* json.dumps(..., default=str): a datetime becomes its string.
DatetimeStr(t) == [str |-> t]

\* The JSON text is held as the object it encodes.
JsonDumps(a) ==
    [json |-> [a EXCEPT !.timestamp = DatetimeStr(a.timestamp),
                        !.next_assessment_due = DatetimeStr(a.next_assessment_due)]]

\* json.loads: the object of the text; a datetime stays the string it became.
JsonLoads(text) == text.json

\* The RiskAssessment row that store_risk_assessment builds.
RiskAssessmentRow(a) ==
    [assessment_id |-> a.assessment_id,
     patient_id |-> a.patient_id,
     pregnancy_id |-> a.pregnancy_id,
     timestamp |-> a.timestamp,
     overall_risk_score |-> a.overall_risk_score,
     risk_level |-> a.risk_level,
     risk_scores |-> a.risk_scores,
     recommendations |-> a.recommendations,
     model_version |-> a.model_version,
     confidence |-> a.confidence]

CacheKey(id) == <<"assessment", id>>

\* A faulty variant: the exception of the write reaches the response.
StoreRiskAssessment_surfaced(r, raised) ==
    /\ background_tasks[r] # <<>>
    /\ Head(background_tasks[r]).task = "store_risk_assessment"
    /\ background_tasks' = [background_tasks EXCEPT ![r] = Tail(@)]
    /\ db' = IF raised THEN db
             ELSE Append(db, RiskAssessmentRow(Head(background_tasks[r]).assessment))
    /\ req' = IF raised THEN [req EXCEPT ![r] = Failed(@, "store_risk_assessment")]
              ELSE req
    /\ UNCHANGED <<clock, cache, rec_input, rec_output, scan, lost_tasks, lookup>>

\* store_risk_assessment: an exception is logged and swallowed.
StoreRiskAssessment(r, raised) ==
    /\ background_tasks[r] # <<>>
    /\ Head(background_tasks[r]).task = "store_risk_assessment"
    /\ background_tasks' = [background_tasks EXCEPT ![r] = Tail(@)]
    /\ db' = IF raised THEN db
             ELSE Append(db, RiskAssessmentRow(Head(background_tasks[r]).assessment))
    /\ UNCHANGED <<clock, req, cache, rec_input, rec_output, scan, lost_tasks, lookup>>

\* cache_assessment_result: redis setex; an exception is logged and swallowed.
CacheAssessmentResult(r, raised) ==
    /\ background_tasks[r] # <<>>
    /\ Head(background_tasks[r]).task = "cache_assessment_result"
    /\ background_tasks' = [background_tasks EXCEPT ![r] = Tail(@)]
    /\ cache' = IF raised THEN cache
                ELSE LET a == Head(background_tasks[r]).assessment
                     IN  (CacheKey(a.assessment_id) :> JsonDumps(a)) @@ cache
    /\ UNCHANGED <<clock, req, db, rec_input, rec_output, scan, lost_tasks, lookup>>

---------------------------------------------------------------------------
(* get_risk_assessment: no await inside, the handler runs in one stretch *)

\* assessment.to_dict(): the dictionary the row makes of itself.
ToDict(row) == [to_dict |-> row]

\* db.query(RiskAssessment).filter(assessment_id == id).first()
First(id) ==
    LET found == {i \in DOMAIN db : db[i].assessment_id = id}
    IN  IF found = {} THEN <<>>
        ELSE <<db[CHOOSE i \in found : \A j \in found : i <= j]>>

Looked(id, cached, queried, raised, status, body) ==
    [assessment_id |-> id, cached |-> cached, queried |-> queried,
     raised |-> raised, response |-> [status |-> status, body |-> body]]

\* Faulty variants: the HTTPException(404) caught by the handler's general
\* except clause; and the table asked before redis.
GetRiskAssessment_generic(id, redis_raised, db_raised) ==
    /\ lookup' =
          IF redis_raised THEN Looked(id, FALSE, FALSE, "redis", 500, <<>>)
          ELSE IF CacheKey(id) \in DOMAIN cache
          THEN Looked(id, TRUE, FALSE, "", 200, <<JsonLoads(cache[CacheKey(id)])>>)
          ELSE IF db_raised THEN Looked(id, FALSE, TRUE, "db", 500, <<>>)
          ELSE IF First(id) = <<>> THEN Looked(id, FALSE, TRUE, "", 500, <<>>)
          ELSE Looked(id, FALSE, TRUE, "", 200, <<ToDict(First(id)[1])>>)
    /\ UNCHANGED <<clock, req, background_tasks, db, cache, rec_input,
                   rec_output, scan, lost_tasks>>

GetRiskAssessment_db_first(id, redis_raised, db_raised) ==
    /\ lookup' =
          IF db_raised THEN Looked(id, FALSE, TRUE, "db", 500, <<>>)
          ELSE IF First(id) # <<>>
          THEN Looked(id, FALSE, TRUE, "", 200, <<ToDict(First(id)[1])>>)
          ELSE IF redis_raised THEN Looked(id, FALSE, TRUE, "redis", 500, <<>>)
          ELSE IF CacheKey(id) \in DOMAIN cache
          THEN Looked(id, TRUE, TRUE, "", 200, <<JsonLoads(cache[CacheKey(id)])>>)
          ELSE Looked(id, FALSE, TRUE, "", 404, <<>>)
    /\ UNCHANGED <<clock, req, background_tasks, db, cache, rec_input,
                   rec_output, scan, lost_tasks>>

\* cached_result = redis_client.get(...); if cached_result: return
\* json.loads(cached_result); otherwise the query, 404 when it finds no row.
\* Any exception but the HTTPException becomes a 500.
GetRiskAssessment(id, redis_raised, db_raised) ==
    /\ lookup' =
          IF redis_raised THEN Looked(id, FALSE, FALSE, "redis", 500, <<>>)
          ELSE IF CacheKey(id) \in DOMAIN cache
          THEN Looked(id, TRUE, FALSE, "", 200, <<JsonLoads(cache[CacheKey(id)])>>)
          ELSE IF db_raised THEN Looked(id, FALSE, TRUE, "db", 500, <<>>)
          ELSE IF First(id) = <<>> THEN Looked(id, FALSE, TRUE, "", 404, <<>>)
          ELSE Looked(id, FALSE, TRUE, "", 200, <<ToDict(First(id)[1])>>)
    /\ UNCHANGED <<clock, req, background_tasks, db, cache, rec_input,
                   rec_output, scan, lost_tasks>>

---------------------------------------------------------------------------
(* A crash of the process *)

\* The tasks of a queue, each with the invocation that added it.
Pending(r) ==
    {[request |-> r, task |-> background_tasks[r][i].task] :
        i \in DOMAIN background_tasks[r]}

\* The process dies while background tasks are queued: BackgroundTasks holds
\* them in memory only, so they are gone; the table and redis keep what
\* they have. An invocation still running ends without a response.
Crash ==
    /\ \E r \in Requests : background_tasks[r] # <<>>
    /\ lost_tasks' = lost_tasks \cup UNION {Pending(r) : r \in Requests}
    /\ background_tasks' = [r \in Requests |-> <<>>]
    /\ req' = [r \in Requests |->
                  IF req[r].pc \in {"idle", "done"} THEN req[r]
                  ELSE [req[r] EXCEPT !.pc = "done", !.error = "crash"]]
    /\ UNCHANGED <<clock, db, cache, rec_input, rec_output, scan, lookup>>

---------------------------------------------------------------------------
(* predict_early_detection, one action per stretch between two awaits *)

\* for days_ahead in range(1, 15)
DetectionWindow == 14

\* except Exception as e: raise HTTPException(status_code=500, ...)
ScanFailed(sc, e) ==
    [sc EXCEPT !.pc = "done", !.error = e,
               !.response = [status |-> 500, body |-> <<>>]]

\* Entry, up to the call of feature_engineer.engineer_features.
StartScan(patient_id) ==
    /\ scan.pc = "idle"
    /\ scan' = [scan EXCEPT !.pc = "engineer_features",
                            !.patient_id = patient_id]
    /\ UNCHANGED <<clock, req, background_tasks, db, cache, rec_input,
                   rec_output, lost_tasks, lookup>>

\* features = await feature_engineer.engineer_features(prediction_input);
\* model_manager.get_model("early_detection"); predictions = []
ScanEngineerFeatures(raised) ==
    /\ scan.pc = "engineer_features"
    /\ scan' = IF raised
               THEN ScanFailed(scan, "engineer_features")
               ELSE [scan EXCEPT !.pc = "predict_timeframe", !.days_ahead = 1]
    /\ UNCHANGED <<clock, req, background_tasks, db, cache, rec_input,
                   rec_output, lost_tasks, lookup>>

\* The log of the predict_timeframe calls made.
ScanCalled(sc, raised) ==
    [sc EXCEPT !.calls = Append(@, [days_ahead |-> sc.days_ahead,
                                    raised |-> raised])]

\* The entry appended for one offset: utcnow() is read when it is built.
Forecast(days_ahead, now) ==
    [days_ahead |-> days_ahead, date |-> now + days_ahead * DayTicks]

\* Faulty variants of the step: the loop left one offset early; and the
\* forecasts made so far returned when predict_timeframe raises.
PredictTimeframe_short(raised) ==
    /\ scan.pc = "predict_timeframe"
    /\ scan' = IF raised
               THEN ScanFailed(ScanCalled(scan, TRUE), "PredictionError")
               ELSE [ScanCalled(scan, FALSE) EXCEPT
                        !.predictions = Append(@, Forecast(scan.days_ahead, clock)),
                        !.days_ahead = @ + 1,
                        !.pc = IF scan.days_ahead >= DetectionWindow - 1
                               THEN "return" ELSE "predict_timeframe"]
    /\ UNCHANGED <<clock, req, background_tasks, db, cache, rec_input,
                   rec_output, lost_tasks, lookup>>

PredictTimeframe_partial(raised) ==
    /\ scan.pc = "predict_timeframe"
    /\ scan' = IF raised
               THEN [ScanCalled(scan, TRUE) EXCEPT !.pc = "return"]
               ELSE [ScanCalled(scan, FALSE) EXCEPT
                        !.predictions = Append(@, Forecast(scan.days_ahead, clock)),
                        !.days_ahead = @ + 1,
                        !.pc = IF scan.days_ahead = DetectionWindow
                               THEN "return" ELSE "predict_timeframe"]
    /\ UNCHANGED <<clock, req, background_tasks, db, cache, rec_input,
                   rec_output, lost_tasks, lookup>>

\* One turn of the loop: prediction = await predict_timeframe(features,
\* days_ahead); predictions.append({... utcnow() + timedelta(days=days_ahead)})
PredictTimeframe(raised) ==
    /\ scan.pc = "predict_timeframe"
    /\ scan' = IF raised
               THEN ScanFailed(ScanCalled(scan, TRUE), "PredictionError")
               ELSE [ScanCalled(scan, FALSE) EXCEPT
                        !.predictions = Append(@, Forecast(scan.days_ahead, clock)),
                        !.days_ahead = @ + 1,
                        !.pc = IF scan.days_ahead = DetectionWindow
                               THEN "return" ELSE "predict_timeframe"]
    /\ UNCHANGED <<clock, req, background_tasks, db, cache, rec_input,
                   rec_output, lost_tasks, lookup>>

\* return {"success": True, "data": {..., "prediction_timestamp": utcnow(),
\* "predictions": predictions, ...}}
ReturnScan ==
    /\ scan.pc = "return"
    /\ scan' = [scan EXCEPT
            !.pc = "done",
            !.response = [status |-> 200,
                          body |-> <<[patient_id |-> scan.patient_id,
                                      prediction_timestamp |-> clock,
                                      predictions |-> scan.predictions]>>]]
    /\ UNCHANGED <<clock, req, background_tasks, db, cache, rec_input,
                   rec_output, lost_tasks, lookup>>

---------------------------------------------------------------------------
(* What the collaborators may return *)

Patients == {"p1", "p2"}

ScoreValues == {0, 29, 30, 59, 60, 79, 80, 100}

ValidOutputs ==
    [score : ScoreValues, probability : {50}, confidence : {85},
     trend : {"stable"}]

\* One value outside each declared range.
InvalidOutputs ==
    { [score |-> 101, probability |-> 50, confidence |-> 85, trend |-> "stable"],
      [score |-> 50, probability |-> 101, confidence |-> 85, trend |-> "stable"],
      [score |-> 50, probability |-> 50, confidence |-> -1, trend |-> "stable"],
      [score |-> 50, probability |-> 50, confidence |-> 85, trend |-> "unknown"] }

Outputs == ValidOutputs \cup InvalidOutputs

NoOutput == [score |-> 0, probability |-> 0, confidence |-> 0, trend |-> ""]

---------------------------------------------------------------------------
(* Spec: one invocation of perform_risk_assessment, from the request to    *)
(* its background tasks                                                    *)

Next ==
    \/ Tick
    \/ \E pd \in BOOLEAN, vs \in BOOLEAN :
           StartAssessment(1, "p1", pd, vs)
    \/ \E pd \in BOOLEAN, vs \in BOOLEAN :
           RejectRequest(1, "p1", pd, vs)
    \/ \E raised \in BOOLEAN : EngineerFeatures(1, raised)
    \/ \E out \in Outputs : PredictPreeclampsia(1, FALSE, out)
    \/ PredictPreeclampsia(1, TRUE, NoOutput)
    \/ \E out \in Outputs : PredictGestationalDiabetes(1, FALSE, out)
    \/ PredictGestationalDiabetes(1, TRUE, NoOutput)
    \/ \E out \in Outputs : PredictPretermBirth(1, FALSE, out)
    \/ PredictPretermBirth(1, TRUE, NoOutput)
    \/ Aggregate(1)
    \/ ScheduleNext(1)
    \/ MakeAssessmentId(1)
    \/ \E raised \in BOOLEAN : BuildAndReturn(1, raised)
    \/ \E raised \in BOOLEAN : StoreRiskAssessment(1, raised)
    \/ \E raised \in BOOLEAN : CacheAssessmentResult(1, raised)

Spec == Init /\ [][Next]_vars

---------------------------------------------------------------------------
(* SpecSeq: the invocations one after the other, each started once the     *)
(* one before it has answered and its background tasks have run; every     *)
(* collaborator succeeds                                                   *)

SeqScoreValues == {0, 100}

SeqOutputs ==
    [score : SeqScoreValues, probability : {50}, confidence : {85},
     trend : {"stable"}]

NextSeq ==
    \/ Tick
    \/ \E r \in Requests :
          /\ IF r = 1 THEN TRUE
             ELSE req[r - 1].pc = "done" /\ background_tasks[r - 1] = <<>>
          /\ StartAssessment(r, "p1", TRUE, TRUE)
    \/ \E r \in Requests : EngineerFeatures(r, FALSE)
    \/ \E r \in Requests, out \in SeqOutputs : PredictPreeclampsia(r, FALSE, out)
    \/ \E r \in Requests, out \in SeqOutputs :
          PredictGestationalDiabetes(r, FALSE, out)
    \/ \E r \in Requests, out \in SeqOutputs : PredictPretermBirth(r, FALSE, out)
    \/ \E r \in Requests : Aggregate(r)
    \/ \E r \in Requests : ScheduleNext(r)
    \/ \E r \in Requests : MakeAssessmentId(r)
    \/ \E r \in Requests : BuildAndReturn(r, FALSE)
    \/ \E r \in Requests : StoreRiskAssessment(r, FALSE)
    \/ \E r \in Requests : CacheAssessmentResult(r, FALSE)

SpecSeq == Init /\ [][NextSeq]_vars

---------------------------------------------------------------------------
(* SpecCrash: the invocations one after the other as in SpecSeq, with the   *)
(* process allowed to die while background tasks are queued                 *)

NextCrash ==
    \/ \E r \in Requests :
          /\ IF r = 1 THEN TRUE
             ELSE req[r - 1].pc = "done" /\ background_tasks[r - 1] = <<>>
          /\ StartAssessment(r, "p1", TRUE, TRUE)
    \/ \E r \in Requests : EngineerFeatures(r, FALSE)
    \/ \E r \in Requests, out \in SeqOutputs : PredictPreeclampsia(r, FALSE, out)
    \/ \E r \in Requests, out \in SeqOutputs :
          PredictGestationalDiabetes(r, FALSE, out)
    \/ \E r \in Requests, out \in SeqOutputs : PredictPretermBirth(r, FALSE, out)
    \/ \E r \in Requests : Aggregate(r)
    \/ \E r \in Requests : ScheduleNext(r)
    \/ \E r \in Requests : MakeAssessmentId(r)
    \/ \E r \in Requests : BuildAndReturn(r, FALSE)
    \/ \E r \in Requests : StoreRiskAssessment(r, FALSE)
    \/ \E r \in Requests : CacheAssessmentResult(r, FALSE)
    \/ Crash

SpecCrash == Init /\ [][NextCrash]_vars

---------------------------------------------------------------------------
(* SpecConf: one invocation whose predictors differ in their confidence *)

ConfidenceValues == {0, 1, 50, 85, 100}

ConfOutputs ==
    [score : SeqScoreValues, probability : {50}, confidence : ConfidenceValues,
     trend : {"stable"}]

NextConf ==
    \/ Tick
    \/ StartAssessment(1, "p1", TRUE, TRUE)
    \/ EngineerFeatures(1, FALSE)
    \/ \E out \in ConfOutputs : PredictPreeclampsia(1, FALSE, out)
    \/ \E out \in ConfOutputs : PredictGestationalDiabetes(1, FALSE, out)
    \/ \E out \in ConfOutputs : PredictPretermBirth(1, FALSE, out)
    \/ Aggregate(1)
    \/ ScheduleNext(1)
    \/ MakeAssessmentId(1)
    \/ BuildAndReturn(1, FALSE)
    \/ StoreRiskAssessment(1, FALSE)
    \/ CacheAssessmentResult(1, FALSE)

SpecConf == Init /\ [][NextConf]_vars

---------------------------------------------------------------------------
(* SpecSched: the scheduling step of perform_risk_assessment applied to    *)
(* any level, one of the four or not. In the handler the level comes from  *)
(* the bands just before the step, so there it is always one of the four.  *)

SchedLevels ==
    RiskLevels \cup {"", "unknown", "severe", "none", "Critical", "LOW"}

InitSched ==
    /\ clock = 0
    /\ \E level \in SchedLevels :
          req = [r \in Requests |->
                    IF r = 1
                    THEN [Received("p1", TRUE, TRUE) EXCEPT
                            !.pc = "schedule", !.risk_level = level]
                    ELSE IdleRequest]
    /\ background_tasks = [r \in Requests |-> <<>>]
    /\ db = <<>>
    /\ cache = <<>>
    /\ rec_input = <<>>
    /\ rec_output = <<>>
    /\ scan = IdleScan
    /\ lost_tasks = {}
    /\ lookup = NoLookup

NextSched ==
    \/ Tick
    \/ ScheduleNext(1)
    \/ MakeAssessmentId(1)

SpecSched == InitSched /\ [][NextSched]_vars

---------------------------------------------------------------------------
(* SpecConc: the invocations run concurrently, their steps interleaved in  *)
(* any order between the awaits; every collaborator succeeds               *)

NextConc ==
    \/ \E r \in Requests : StartAssessment(r, "p1", TRUE, TRUE)
    \/ \E r \in Requests : EngineerFeatures(r, FALSE)
    \/ \E r \in Requests, out \in SeqOutputs : PredictPreeclampsia(r, FALSE, out)
    \/ \E r \in Requests, out \in SeqOutputs :
          PredictGestationalDiabetes(r, FALSE, out)
    \/ \E r \in Requests, out \in SeqOutputs : PredictPretermBirth(r, FALSE, out)
    \/ \E r \in Requests : Aggregate(r)
    \/ \E r \in Requests : ScheduleNext(r)
    \/ \E r \in Requests : MakeAssessmentId(r)
    \/ \E r \in Requests : BuildAndReturn(r, FALSE)
    \/ \E r \in Requests : StoreRiskAssessment(r, FALSE)
    \/ \E r \in Requests : CacheAssessmentResult(r, FALSE)

SpecConc == Init /\ [][NextConc]_vars

---------------------------------------------------------------------------
(* SpecLookup: the invocations of perform_risk_assessment one after the    *)
(* other, for either patient, within one second of the clock, and          *)
(* get_risk_assessment called at any moment                                *)

LookupIds == {assessment_id(0, p) : p \in Patients} \cup {<<"non-existent-id">>}

\* Two of the predictors always return the same; the records differ by the
\* first one's score.
FixedOutputs == {out \in SeqOutputs : out.score = 0}

NextLookup ==
    \/ \E r \in Requests, p \in Patients :
          /\ IF r = 1 THEN TRUE
             ELSE req[r - 1].pc = "done" /\ background_tasks[r - 1] = <<>>
          /\ StartAssessment(r, p, TRUE, TRUE)
    \/ \E r \in Requests : EngineerFeatures(r, FALSE)
    \/ \E r \in Requests, out \in SeqOutputs : PredictPreeclampsia(r, FALSE, out)
    \/ \E r \in Requests, out \in FixedOutputs :
          PredictGestationalDiabetes(r, FALSE, out)
    \/ \E r \in Requests, out \in FixedOutputs : PredictPretermBirth(r, FALSE, out)
    \/ \E r \in Requests : Aggregate(r)
    \/ \E r \in Requests : ScheduleNext(r)
    \/ \E r \in Requests : MakeAssessmentId(r)
    \/ \E r \in Requests : BuildAndReturn(r, FALSE)
    \/ \E r \in Requests : StoreRiskAssessment(r, FALSE)
    \/ \E r \in Requests : CacheAssessmentResult(r, FALSE)
    \/ \E id \in LookupIds, redis_raised \in BOOLEAN, db_raised \in BOOLEAN :
          GetRiskAssessment(id, redis_raised, db_raised)

SpecLookup == Init /\ [][NextLookup]_vars

---------------------------------------------------------------------------
(* SpecRec: generate_recommendations applied to any list of risk scores *)

RecConditions ==
    {"preeclampsia", "gestational_diabetes", "preterm_birth", "anemia"}

RecScoreValues == {59, 60, 100}

RecRiskScores ==
    { RiskScore(c, [score |-> v, probability |-> 50, confidence |-> 85,
                    trend |-> "stable"]) : c \in RecConditions, v \in RecScoreValues }

RecInputs == UNION { [1..n -> RecRiskScores] : n \in 0..MaxLen }

InitRec ==
    /\ clock = 0
    /\ req = [r \in Requests |-> IdleRequest]
    /\ background_tasks = [r \in Requests |-> <<>>]
    /\ db = <<>>
    /\ cache = <<>>
    /\ rec_input \in RecInputs
    /\ rec_output = <<>>
    /\ scan = IdleScan
    /\ lost_tasks = {}
    /\ lookup = NoLookup

\* recommendations = await generate_recommendations(risk_scores, ...)
CallGenerateRecommendations ==
    /\ rec_output = <<>>
    /\ rec_output' = <<generate_recommendations(rec_input)>>
    /\ UNCHANGED <<clock, req, background_tasks, db, cache, rec_input, scan, lost_tasks, lookup>>

NextRec == CallGenerateRecommendations

SpecRec == InitRec /\ [][NextRec]_vars

---------------------------------------------------------------------------
(* SpecScan: one invocation of predict_early_detection *)

NextScan ==
    \/ Tick
    \/ StartScan("p1")
    \/ \E raised \in BOOLEAN : ScanEngineerFeatures(raised)
    \/ \E raised \in BOOLEAN : PredictTimeframe(raised)
    \/ ReturnScan

SpecScan == Init /\ [][NextScan]_vars

---------------------------------------------------------------------------
(* Properties of the record that perform_risk_assessment returns *)

Returned(r) == req[r].response.status = 200

Result(r) == req[r].response.body[1]

\* The score that the i-th predictor call of invocation r returned.
PredictedScore(r, i) == req[r].calls[i].returned.score

\* C1: the overall_risk_score of every returned record is exactly
\* 0.4*p + 0.3*g + 0.3*t of the scores p, g, t that the preeclampsia,
\* gestational-diabetes and preterm-birth predictors returned (here in
\* tenths: 4p + 3g + 3t), and the three weights sum to 1.0 (ten tenths).
C1_OverallIsWeightedSum ==
    /\ weights["preeclampsia"] + weights["gestational_diabetes"]
         + weights["preterm_birth"] = 10
    /\ \A r \in Requests :
          Returned(r) =>
              /\ Len(req[r].calls) = 3
              /\ Result(r).overall_risk_score =
                     4 * PredictedScore(r, 1) + 3 * PredictedScore(r, 2)
                     + 3 * PredictedScore(r, 3)

C1_Witness ==
    /\ Returned(1)
    /\ PredictedScore(1, 1) = 80
    /\ PredictedScore(1, 2) = 60
    /\ PredictedScore(1, 3) = 30
    /\ Result(1).overall_risk_score = 590

\* C2: every overall score s gets exactly one risk level: critical when
\* s >= 80, high when 60 <= s < 80, moderate when 30 <= s < 60, low when
\* s < 30 (s in tenths: 800, 600, 300).
C2_RiskLevelBands ==
    \A r \in Requests :
        Returned(r) =>
            LET s == Result(r).overall_risk_score
                l == Result(r).risk_level
            IN  /\ s >= 0 /\ s <= 1000
                /\ l \in {"low", "moderate", "high", "critical"}
                /\ (l = "critical") <=> (s >= 800)
                /\ (l = "high") <=> (s >= 600 /\ s < 800)
                /\ (l = "moderate") <=> (s >= 300 /\ s < 600)
                /\ (l = "low") <=> (s < 300)

C2_Witness ==
    /\ Returned(1)
    /\ Result(1).overall_risk_score = 600
    /\ Result(1).risk_level = "high"

\* C3: next_assessment_due lies after the instant at which it was computed
\* by an offset that the risk level alone determines: critical 6 hours,
\* high 1 day, moderate 3 days, low 7 days.
C3_DueOffsetByLevel ==
    \A r \in Requests :
        Returned(r) =>
            LET offset == Result(r).next_assessment_due - req[r].due_now
                l == Result(r).risk_level
            IN  /\ l = "critical" => offset = 6 * 3600 * TicksPerSecond
                /\ l = "high" => offset = 24 * 3600 * TicksPerSecond
                /\ l = "moderate" => offset = 3 * 24 * 3600 * TicksPerSecond
                /\ l = "low" => offset = 7 * 24 * 3600 * TicksPerSecond
                /\ l \in {"critical", "high", "moderate", "low"}

C3_Witness ==
    /\ Returned(1)
    /\ Result(1).risk_level = "critical"
    /\ req[1].due_now > 0
    /\ Result(1).next_assessment_due = req[1].due_now + 6 * 3600 * TicksPerSecond

LevelRank(l) ==
    CASE l = "low" -> 0 [] l = "moderate" -> 1 [] l = "high" -> 2
      [] l = "critical" -> 3

TimeToNextDue(r) == Result(r).next_assessment_due - req[r].due_now

\* C4: of two returned assessments the one with the higher overall score has
\* a risk level that is not lower (low < moderate < high < critical) and a
\* time to its next due date that is not longer; and an assessment of level
\* high or critical is due within 24 hours.
C4_UrgencyMonotone ==
    /\ \A r1 \in Requests, r2 \in Requests :
          ( /\ Returned(r1) /\ Returned(r2)
            /\ Result(r1).overall_risk_score < Result(r2).overall_risk_score )
          => /\ LevelRank(Result(r1).risk_level) <= LevelRank(Result(r2).risk_level)
             /\ TimeToNextDue(r2) <= TimeToNextDue(r1)
    /\ \A r \in Requests :
          (Returned(r) /\ Result(r).risk_level \in {"high", "critical"})
          => /\ TimeToNextDue(r) <= 24 * 3600 * TicksPerSecond
             /\ Result(r).next_assessment_due - Result(r).timestamp
                   <= 24 * 3600 * TicksPerSecond

C4_Witness ==
    /\ Returned(1) /\ Returned(2)
    /\ Result(1).overall_risk_score = 300 /\ Result(1).risk_level = "moderate"
    /\ Result(2).overall_risk_score = 600 /\ Result(2).risk_level = "high"
    /\ TimeToNextDue(2) < TimeToNextDue(1)

---------------------------------------------------------------------------
(* Properties of generate_recommendations *)

Summary(recommendation) ==
    <<recommendation.type, recommendation.priority, recommendation.evidence_level>>

PreeclampsiaPair == << <<"monitoring", "high", "A">>, <<"lifestyle", "medium", "B">> >>

GestationalDiabetesPair == << <<"testing", "high", "A">>, <<"lifestyle", "high", "A">> >>

Summaries(recommendations) ==
    [i \in 1..Len(recommendations) |-> Summary(recommendations[i])]

\* C5: a condition's bundle is emitted exactly when that condition's own
\* score is >= 60, whatever the overall score and the risk level are:
\* preeclampsia >= 60 gives monitoring/high/A then lifestyle/medium/B,
\* gestational_diabetes >= 60 gives testing/high/A then lifestyle/high/A.
C5_BundleIffConditionScore ==
    \A r \in Requests :
        Returned(r) =>
            Summaries(Result(r).recommendations) =
                (IF PredictedScore(r, 1) >= 60 THEN PreeclampsiaPair ELSE <<>>)
                \o (IF PredictedScore(r, 2) >= 60
                    THEN GestationalDiabetesPair ELSE <<>>)

\* Preeclampsia exactly 60 and gestational diabetes just below, with an
\* overall score in the high band all the same.
C5_Witness ==
    /\ Returned(1)
    /\ PredictedScore(1, 1) = 60
    /\ PredictedScore(1, 2) = 59
    /\ PredictedScore(1, 3) = 100
    /\ Result(1).risk_level = "high"
    /\ Summaries(Result(1).recommendations) = PreeclampsiaPair

Qualifying(risk_scores, condition) ==
    { i \in 1..Len(risk_scores) :
        risk_scores[i].condition = condition /\ risk_scores[i].score >= 60 }

\* C6: every recommendation comes from a preeclampsia or a
\* gestational_diabetes score >= 60; preterm_birth and any other condition
\* contribute nothing whatever their score, and with no such score the list
\* is empty.
C6_NoFabricatedRecommendation ==
    rec_output # <<>> =>
        LET out == rec_output[1]
            pre == Qualifying(rec_input, "preeclampsia")
            gd == Qualifying(rec_input, "gestational_diabetes")
        IN  /\ Len(out) = 2 * Cardinality(pre) + 2 * Cardinality(gd)
            /\ \A j \in 1..Len(out) :
                  \/ pre # {} /\ \E k \in 1..2 : Summary(out[j]) = PreeclampsiaPair[k]
                  \/ gd # {} /\ \E k \in 1..2 : Summary(out[j]) = GestationalDiabetesPair[k]
            /\ (pre = {} /\ gd = {}) => out = <<>>

C6_Witness ==
    /\ rec_output = << <<>> >>
    /\ Len(rec_input) = 3
    /\ rec_input[1].condition = "preterm_birth" /\ rec_input[1].score = 100
    /\ rec_input[2].condition = "anemia" /\ rec_input[2].score = 100
    /\ rec_input[3].condition = "preeclampsia" /\ rec_input[3].score = 59

\* The entries of the input that get a bundle, and the bundle of each.
Bundled(risk_scores) ==
    Qualifying(risk_scores, "preeclampsia")
    \cup Qualifying(risk_scores, "gestational_diabetes")

PairOf(condition) ==
    IF condition = "preeclampsia" THEN PreeclampsiaPair ELSE GestationalDiabetesPair

\* C7: the output follows the order of the input, the two items of each
\* qualifying entry adjacent, nothing reordered and nothing deduplicated: the
\* k-th qualifying entry owns items 2k-1 and 2k, so that preeclampsia and
\* gestational_diabetes both >= 60 in the fixed order give the 4 items
\* preeclampsia first, and a condition named twice gives its bundle twice.
C7_InputOrderNoDedup ==
    rec_output # <<>> =>
        LET out == rec_output[1]
            q == Bundled(rec_input)
        IN  /\ Len(out) = 2 * Cardinality(q)
            /\ \A i \in q :
                  LET before == Cardinality({ j \in q : j < i })
                  IN  /\ Summary(out[2 * before + 1]) = PairOf(rec_input[i].condition)[1]
                      /\ Summary(out[2 * before + 2]) = PairOf(rec_input[i].condition)[2]

C7_Witness ==
    /\ rec_output # <<>>
    /\ Len(rec_input) = 3
    /\ rec_input[1].condition = "gestational_diabetes" /\ rec_input[1].score = 60
    /\ rec_input[2].condition = "preeclampsia" /\ rec_input[2].score = 100
    /\ rec_input[3].condition = "gestational_diabetes" /\ rec_input[3].score = 100
    /\ Summaries(rec_output[1]) =
          GestationalDiabetesPair \o PreeclampsiaPair \o GestationalDiabetesPair

---------------------------------------------------------------------------
(* Properties of the predictor calls of perform_risk_assessment *)

PredictorRaised(r) ==
    \E i \in 1..Len(req[r].calls) : req[r].calls[i].raised

\* C8: when one of the three predictor calls fails, the caller gets a
\* failure and no assessment, partial or degraded, and nothing of that
\* request is queued for, or written to, the store or the cache.
C8_PredictorFailureFailsAll ==
    \A r \in Requests :
        PredictorRaised(r) =>
            /\ req[r].pc = "done"
            /\ req[r].response.status = 500
            /\ req[r].response.body = <<>>
            /\ background_tasks[r] = <<>>
            /\ \A i \in 1..Len(db) : db[i].patient_id # req[r].patient_id
            /\ \A k \in DOMAIN cache : cache[k].patient_id # req[r].patient_id

\* The gestational-diabetes predictor fails after the preeclampsia one
\* has answered.
C8_Witness ==
    /\ Len(req[1].calls) = 2
    /\ ~req[1].calls[1].raised
    /\ req[1].calls[2].model = "gestational_diabetes"
    /\ req[1].calls[2].raised
    /\ Len(req[1].risk_scores) = 1
    /\ req[1].response.status = 500

Aggregating(r) ==
    \/ req[r].pc \in {"aggregate", "schedule", "assessment_id", "build"}
    \/ req[r].overall_score # -1
    \/ req[r].risk_level # ""
    \/ req[r].recommendations # <<>>
    \/ req[r].next_assessment # -1
    \/ Returned(r)

\* C9: the overall score, the risk level, the recommendations and the due
\* date of a request are computed only once its three predictor calls have
\* all completed without failure: no aggregation step runs on fewer than
\* three scores.
C9_AggregateAfterThreePredictions ==
    \A r \in Requests :
        Aggregating(r) =>
            /\ Len(req[r].risk_scores) = 3
            /\ Len(req[r].calls) = 3
            /\ \A i \in 1..3 : ~req[r].calls[i].raised
            /\ { req[r].calls[i].model : i \in 1..3 } =
                  {"preeclampsia", "gestational_diabetes", "preterm_birth"}

C9_Witness ==
    /\ req[1].pc = "schedule"
    /\ req[1].overall_score = 1000
    /\ req[1].risk_level = "critical"
    /\ Len(req[1].recommendations) = 4
    /\ Len(req[1].calls) = 3

\* C10: a returned record holds exactly three risk scores, in the order
\* preeclampsia, gestational_diabetes, preterm_birth, each the score its
\* predictor returned, however the clock moved between the calls.
C10_ThreeScoresFixedOrder ==
    \A r \in Requests :
        Returned(r) =>
            /\ Len(Result(r).risk_scores) = 3
            /\ Result(r).risk_scores[1].condition = "preeclampsia"
            /\ Result(r).risk_scores[2].condition = "gestational_diabetes"
            /\ Result(r).risk_scores[3].condition = "preterm_birth"
            /\ \A i \in 1..3 :
                  /\ req[r].calls[i].model = Result(r).risk_scores[i].condition
                  /\ req[r].calls[i].returned.score = Result(r).risk_scores[i].score

C10_Witness ==
    /\ Returned(1)
    /\ clock > 0
    /\ Result(1).risk_scores[1].condition = "preeclampsia"
    /\ Result(1).risk_scores[1].score = 29
    /\ Result(1).risk_scores[2].score = 79
    /\ Result(1).risk_scores[3].condition = "preterm_birth"
    /\ Result(1).risk_scores[3].score = 100

---------------------------------------------------------------------------
(* Properties of predict_early_detection *)

ScanReturned == scan.response.status = 200

ScanResult == scan.response.body[1]

\* C11: a scan that succeeds returns exactly 14 forecasts, whose days_ahead
\* are 1, 2, ..., 14 in this order, each offset once, and predict_timeframe
\* has been called exactly once for each offset, in the same order.
C11_FourteenForecasts ==
    ScanReturned =>
        /\ Len(ScanResult.predictions) = 14
        /\ \A i \in 1..14 : ScanResult.predictions[i].days_ahead = i
        /\ Len(scan.calls) = 14
        /\ \A i \in 1..14 : scan.calls[i] = [days_ahead |-> i, raised |-> FALSE]

C11_Witness ==
    /\ ScanReturned
    /\ Len(ScanResult.predictions) = DetectionWindow
    /\ ScanResult.prediction_timestamp = MaxClock

\* C12: the dates of the forecasts of a scan that succeeds all count from
\* one instant: there is a now with date = now + days_ahead days for every
\* entry, whatever the clock does while the predictor is awaited.
C12_DatesShareOneNow ==
    ScanReturned =>
        \E now \in 0..MaxClock :
            \A i \in DOMAIN ScanResult.predictions :
                ScanResult.predictions[i].date
                    = now + ScanResult.predictions[i].days_ahead * DayTicks

\* C13: once predict_timeframe has raised for an offset the scan has failed:
\* the response is the error, no further offset is asked for, and no
\* response ever carries a list of fewer than 14 forecasts.
C13_ScanFailsAsAWhole ==
    /\ \A i \in DOMAIN scan.calls :
          scan.calls[i].raised =>
              /\ scan.pc = "done"
              /\ scan.response = [status |-> 500, body |-> <<>>]
              /\ i = Len(scan.calls)
    /\ scan.response.body # <<>> =>
          Len(ScanResult.predictions) = DetectionWindow

C13_Witness ==
    /\ Len(scan.calls) = 5
    /\ scan.calls[5].raised
    /\ Len(scan.predictions) = 4
    /\ scan.response.status = 500

---------------------------------------------------------------------------
(* Properties of the background writes of perform_risk_assessment *)

\* C14: a failure of the store write or of the cache write is never
\* surfaced: once the record has been returned, no step changes the
\* response, so it is the same successful record whether both writes
\* succeed, either fails, or both fail.
C14_WriteFailureNotSurfaced ==
    [][\A r \in Requests :
          Returned(r) =>
              /\ req'[r].response = req[r].response
              /\ req'[r].error = ""]_vars

C14_Witness ==
    /\ Returned(1)
    /\ background_tasks[1] = <<>>
    /\ db = <<>>
    /\ cache = <<>>

\* The background tasks of r that have run: added, no longer queued, and
\* not dropped by a crash.
HasRun(r, task) ==
    /\ Returned(r)
    /\ [request |-> r, task |-> task] \notin Pending(r) \cup lost_tasks

\* C15: the step that returns the record adds exactly one store task and
\* one cache task, both carrying that record, and touches neither the table
\* nor redis; nothing is added afterwards. A crash while tasks are queued
\* drops those tasks only: the table and redis keep what they have, and
\* the table holds one row for every store task that has run.
C15_OneStoreOneCacheInBackground ==
    /\ [][\A r \in Requests :
            /\ (~Returned(r) /\ Returned(r)') =>
                  /\ background_tasks'[r] =
                        << [task |-> "store_risk_assessment",
                            assessment |-> req'[r].response.body[1]],
                           [task |-> "cache_assessment_result",
                            assessment |-> req'[r].response.body[1]] >>
                  /\ db' = db
                  /\ cache' = cache
            /\ Returned(r) =>
                  Len(background_tasks'[r]) <= Len(background_tasks[r])
            /\ lost_tasks' # lost_tasks =>
                  /\ db' = db
                  /\ cache' = cache
                  /\ lost_tasks' \ lost_tasks
                        = UNION {Pending(q) : q \in Requests}]_vars
    /\ [](Len(db) = Cardinality({r \in Requests :
                        HasRun(r, "store_risk_assessment")}))

C15_Witness ==
    /\ Len(db) = 1
    /\ HasRun(1, "store_risk_assessment")
    /\ Returned(2)
    /\ background_tasks[2] = <<>>
    /\ [request |-> 2, task |-> "store_risk_assessment"] \in lost_tasks

\* C16: any two invocations that return a record return different
\* assessment_id values, however close in time they are for the same
\* patient; so no two records share a redis key or a row key.
C16_AssessmentIdsDiffer ==
    /\ \A r1 \in Requests, r2 \in Requests :
          (r1 # r2 /\ Returned(r1) /\ Returned(r2)) =>
              /\ Result(r1).assessment_id # Result(r2).assessment_id
              /\ CacheKey(Result(r1).assessment_id)
                    # CacheKey(Result(r2).assessment_id)
    /\ \A i \in DOMAIN db, j \in DOMAIN db :
          i # j => db[i].assessment_id # db[j].assessment_id

---------------------------------------------------------------------------
(* Properties of the failures of perform_risk_assessment *)

InputAbsent(r) ==
    /\ req[r].pc # "idle"
    /\ ~req[r].patient_data \/ ~req[r].vital_signs

\* What the caller gets when a predictor fails.
PredictorFailureStatus == Failed(IdleRequest, "PredictionError").response.status

\* C17: an invocation without patient data or without vital signs ends in
\* an error whose status differs from that of a predictor failure, with
\* feature engineering and the predictors never called and nothing stored
\* or cached.
C17_ValidationErrorDistinct ==
    \A r \in Requests :
        InputAbsent(r) =>
            /\ req[r].pc = "done"
            /\ req[r].response.body = <<>>
            /\ req[r].response.status \notin {200, PredictorFailureStatus}
            /\ req[r].calls = <<>>
            /\ background_tasks[r] = <<>>
            /\ db = <<>>
            /\ cache = <<>>

\* C18: what the store task writes and what the cache task writes is the
\* record that was returned: every field of it is in the row and in the
\* cached value, with the value it has in the record (a datetime in the
\* cached JSON being its string).
C18_StoreAndCacheHoldTheRecord ==
    \A r \in Requests :
        Returned(r) =>
            /\ \A i \in DOMAIN db :
                  \A f \in DOMAIN Result(r) :
                      /\ f \in DOMAIN db[i]
                      /\ db[i][f] = Result(r)[f]
            /\ \A k \in DOMAIN cache :
                  \A f \in DOMAIN Result(r) :
                      /\ f \in DOMAIN JsonLoads(cache[k])
                      /\ JsonLoads(cache[k])[f] = JsonLoads(JsonDumps(Result(r)))[f]

\* C19: in a returned record next_assessment_due is the record's timestamp
\* plus the interval of its risk level, and the time in assessment_id is
\* that of the timestamp, whatever the clock does during the invocation.
C19_DueAndIdFromTimestamp ==
    \A r \in Requests :
        Returned(r) =>
            /\ Result(r).next_assessment_due
                  = Result(r).timestamp + next_assessment_delta(Result(r).risk_level)
            /\ Result(r).assessment_id
                  = assessment_id(Result(r).timestamp, Result(r).patient_id)

\* A predictor's value outside its range: the score outside 0..100, the
\* probability or the confidence outside 0..1 (in hundredths), or a trend
\* that is none of the three.
OutOfRange(out) ==
    \/ out.score \notin 0..100
    \/ out.probability \notin 0..100
    \/ out.confidence \notin 0..100
    \/ out.trend \notin {"improving", "stable", "worsening"}

\* C20: once a predictor has returned a value outside a declared range the
\* invocation has failed: the caller has the error and no record, no
\* further predictor is called, the value is in no risk score, no overall
\* score is computed, and nothing is queued, stored or cached.
C20_OutOfRangeFailsAll ==
    \A r \in Requests :
        \A i \in DOMAIN req[r].calls :
            (~req[r].calls[i].raised /\ OutOfRange(req[r].calls[i].returned)) =>
                /\ req[r].pc = "done"
                /\ req[r].response = [status |-> 500, body |-> <<>>]
                /\ i = Len(req[r].calls)
                /\ Len(req[r].risk_scores) = i - 1
                /\ req[r].overall_score = -1
                /\ background_tasks[r] = <<>>
                /\ db = <<>>
                /\ cache = <<>>

C20_Witness ==
    /\ Len(req[1].calls) = 2
    /\ ~req[1].calls[2].raised
    /\ req[1].calls[2].returned.trend \notin Trends
    /\ req[1].response.status = 500
    /\ Len(req[1].risk_scores) = 1

---------------------------------------------------------------------------
(* Properties of the aggregated values *)

\* The confidence that the i-th predictor call of invocation r returned.
PredictedConfidence(r, i) == req[r].calls[i].returned.confidence

Least(S) == CHOOSE x \in S : \A y \in S : x <= y

Greatest(S) == CHOOSE x \in S : \A y \in S : x >= y

\* C21: the confidence of a returned assessment, a fraction num/den, is the
\* mean of the three confidences the predictors returned: three times it is
\* their sum; so it is no less than the least and no more than the greatest
\* of them, and inside 0..1 (0..100 hundredths).
C21_ConfidenceIsMean ==
    \A r \in Requests :
        Returned(r) =>
            LET c == Result(r).confidence
                given == {PredictedConfidence(r, i) : i \in 1..3}
            IN  /\ c.den > 0
                /\ 3 * c.num = c.den * (PredictedConfidence(r, 1)
                                        + PredictedConfidence(r, 2)
                                        + PredictedConfidence(r, 3))
                /\ Least(given) * c.den <= c.num
                /\ c.num <= Greatest(given) * c.den
                /\ 0 <= c.num /\ c.num <= 100 * c.den

C21_Witness ==
    /\ Returned(1)
    /\ PredictedConfidence(1, 1) = 100
    /\ PredictedConfidence(1, 2) = 1
    /\ PredictedConfidence(1, 3) = 85
    /\ Result(1).confidence = [num |-> 186, den |-> 3]

OwnScores(r) == <<PredictedScore(r, 1), PredictedScore(r, 2), PredictedScore(r, 3)>>

\* The risk scores of an invocation running alone with these predictions.
Alone(r) ==
    << RiskScore("preeclampsia", req[r].calls[1].returned),
       RiskScore("gestational_diabetes", req[r].calls[2].returned),
       RiskScore("preterm_birth", req[r].calls[3].returned) >>

Aggregated(r) == req[r].overall_score # -1

\* C23: whatever the interleaving of the invocations, each one's overall
\* score, level and recommendations, and the confidence it returns, are
\* those it would get alone from its own three predictions; two
\* invocations with the same three scores get the same of each; and every
\* invocation that ends has returned its record.
C23_ResultFromOwnScoresOnly ==
    /\ \A r \in Requests :
          /\ Aggregated(r) =>
                /\ req[r].overall_score = overall_score(Alone(r))
                /\ req[r].risk_level = risk_level(overall_score(Alone(r)))
                /\ req[r].recommendations = generate_recommendations(Alone(r))
          /\ Returned(r) =>
                /\ Result(r).overall_risk_score = overall_score(Alone(r))
                /\ Result(r).risk_level = risk_level(overall_score(Alone(r)))
                /\ Result(r).recommendations = generate_recommendations(Alone(r))
                /\ Result(r).confidence = mean_confidence(Alone(r))
          /\ req[r].pc = "done" => Returned(r)
    /\ \A r1 \in Requests, r2 \in Requests :
          (Aggregated(r1) /\ Aggregated(r2) /\ OwnScores(r1) = OwnScores(r2)) =>
              /\ req[r1].overall_score = req[r2].overall_score
              /\ req[r1].risk_level = req[r2].risk_level
              /\ req[r1].recommendations = req[r2].recommendations

C23_Witness ==
    /\ req[1].pc = "build"
    /\ req[2].pc = "build"
    /\ req[1].risk_level = "critical"
    /\ req[2].risk_level = "low"
    /\ req[1].recommendations # req[2].recommendations

---------------------------------------------------------------------------
(* Properties of get_risk_assessment *)

\* C24: a lookup during which no collaborator raises answers from redis,
\* without querying the table, when redis has an entry for the id;
\* otherwise with the row of that id in the table; and with 404 when
\* neither has the id. A 500 is the answer only when a collaborator raised.
C24_CacheThenStoreThenNotFound ==
    [][lookup' # lookup =>
          LET id == lookup'.assessment_id
              rows == {i \in DOMAIN db : db[i].assessment_id = id}
          IN  /\ lookup'.raised = "" =>
                    IF CacheKey(id) \in DOMAIN cache
                    THEN /\ lookup'.response
                              = [status |-> 200, body |-> <<cache[CacheKey(id)].json>>]
                         /\ ~lookup'.queried
                    ELSE IF rows # {}
                    THEN /\ lookup'.response.status = 200
                         /\ \E i \in rows :
                               lookup'.response.body = <<[to_dict |-> db[i]]>>
                    ELSE lookup'.response = [status |-> 404, body |-> <<>>]
              /\ lookup'.response.status = 500 => lookup'.raised # ""]_vars

C24_Witness ==
    /\ lookup.response.status = 404
    /\ lookup.queried
    /\ db # <<>>
    /\ cache # <<>>

\* C25: once the background tasks of a returned assessment have run
\* without failing, every lookup of its assessment_id that no collaborator
\* fails finds it: the answer is that record, as redis or as the table
\* holds it, and no later assessment changes this.
C25_ReturnedRecordRetrievable ==
    [][lookup' # lookup =>
          \A r \in Requests :
              ( /\ Returned(r)
                /\ background_tasks[r] = <<>>
                /\ lookup'.assessment_id = Result(r).assessment_id
                /\ lookup'.raised = "" ) =>
                  /\ lookup'.response.status = 200
                  /\ lookup'.response.body \in
                        { <<JsonLoads(JsonDumps(Result(r)))>>,
                          <<ToDict(RiskAssessmentRow(Result(r)))>> }]_vars

---------------------------------------------------------------------------
(* Properties that relate the level, the scores and the recommendations *)

\* C26: a returned assessment whose level is critical has recommendations:
\* its preeclampsia score or its gestational_diabetes score is at least 60.
\* (Each of low, moderate and high occurs with and without recommendations:
\* WithRecommendations and WithoutRecommendations are reachable for each.)
C26_CriticalHasRecommendations ==
    \A r \in Requests :
        (Returned(r) /\ Result(r).risk_level = "critical") =>
            /\ Result(r).recommendations # <<>>
            /\ PredictedScore(r, 1) >= 60 \/ PredictedScore(r, 2) >= 60

C26_Witness ==
    /\ Returned(1)
    /\ Result(1).risk_level = "critical"
    /\ PredictedScore(1, 1) < 60
    /\ Result(1).recommendations = GestationalDiabetesBundle

WithRecommendations(level) ==
    /\ Returned(1)
    /\ Result(1).risk_level = level
    /\ Result(1).recommendations # <<>>

WithoutRecommendations(level) ==
    /\ Returned(1)
    /\ Result(1).risk_level = level
    /\ Result(1).recommendations = <<>>

\* C27: the overall score (in tenths) is no less than the least and no more
\* than the greatest of the three predicted scores, is s when all three are
\* s, and so lies in 0..100; the construction of the record never fails on
\* an assessment that has been aggregated.
C27_OverallWithinScores ==
    \A r \in Requests :
        Aggregated(r) =>
            LET given == {PredictedScore(r, i) : i \in 1..3}
            IN  /\ Least(given) * 10 <= req[r].overall_score
                /\ req[r].overall_score <= Greatest(given) * 10
                /\ Cardinality(given) = 1 =>
                      req[r].overall_score = 10 * PredictedScore(r, 1)
                /\ 0 <= req[r].overall_score
                /\ req[r].overall_score <= 100 * 10
                /\ req[r].error # "ValidationError"

C27_Witness ==
    /\ Returned(1)
    /\ \A i \in 1..3 : PredictedScore(1, i) = 100
    /\ Result(1).overall_risk_score = 100 * WeightScale

====
